---- MODULE Spec2Model ----
(***************************************************************************)
(* Model of the ear-training core of EarTraining.py:                       *)
(*   - the session object EarTrainingGame (game clock thread, guess        *)
(*     buffer, lock, print-based notification),                            *)
(*   - generate_test_sequence, run statement by statement with every       *)
(*     random draw a nondeterministic choice,                              *)
(*   - validate_user_input.                                                *)
(*   - generate_reference_cadence, of EarTraining.py and of backend.py.    *)
(* Each of the four parts has its own specification; the variables of the  *)
(* other parts rest at their initial values.                               *)
(***************************************************************************)
EXTENDS Integers, Sequences, FiniteSets, TLC

VARIABLES
  \* ---- session (EarTrainingGame instance) ----
  running,        \* self.running
  elapsed_time,   \* self.elapsed_time, counted in quanta of 1/60 s
  user_guesses,   \* self.user_guesses
  lock,           \* holders of self.lock: {} when free, else one thread
  thread,         \* self.thread: index of the newest clock thread, 0 = unset
  tpc,            \* position of each clock thread inside _game_clock
  tsnap,          \* elapsed_time as read by a clock thread inside notify_gui
  fpc,            \* position of the foreground caller
  fsnap,          \* elapsed_time as read by the foreground inside notify_gui
  farg,           \* argument of the add_user_guess call in progress
  fg_raised,      \* exception that reached the foreground caller
  out,            \* the line last printed
  stop_returned,  \* stop_game has returned and start_game was not called since
  \* ---- generate_test_sequence ----
  gpc, number_of_notes, solfege_list, octave_range, key,
  midi_sequence, octave_adjustments, g_raised, midi_test_notes,
  pre_octave_key_list,
  \* ---- validate_user_input ----
  vpc, v_truth, v_input, v_raised, overall_match, detailed_match,
  \* ---- generate_reference_cadence ----
  cpc, c_module, c_key, key_note, dominant, tonic, c_raised

session_vars == <<running, elapsed_time, user_guesses, lock, thread, tpc, tsnap,
                  fpc, fsnap, farg, fg_raised, out, stop_returned>>
gen_vars == <<gpc, number_of_notes, solfege_list, octave_range, key,
              midi_sequence, octave_adjustments, g_raised, midi_test_notes,
              pre_octave_key_list>>
val_vars == <<vpc, v_truth, v_input, v_raised, overall_match, detailed_match>>
cad_vars == <<cpc, c_module, c_key, key_note, dominant, tonic, c_raised>>
vars == <<session_vars, gen_vars, val_vars, cad_vars>>

(***************************************************************************)
(* Bounds of the model.                                                    *)
(***************************************************************************)
MaxThreads == 2     \* start_game calls explored
MaxTicks == 2       \* clock iterations begin only below this elapsed_time
MaxGuesses == 2     \* add_user_guess is explored up to this buffer length
MaxNotes == 3       \* largest number_of_notes
MaxSyllables == 2   \* longest list of syllables passed in
MaxOctave == 2      \* largest octave_range
MaxLen == 3         \* longest list handed to validate_user_input

(***************************************************************************)
(* Tables.                                                                 *)
(***************************************************************************)
solfege_to_midi ==
  [s \in {"do", "ra", "re", "me", "mi", "fa", "fi", "sol", "le", "la", "te", "ti"} |->
     CASE s = "do" -> 60 [] s = "ra" -> 61 [] s = "re" -> 62 [] s = "me" -> 63
       [] s = "mi" -> 64 [] s = "fa" -> 65 [] s = "fi" -> 66 [] s = "sol" -> 67
       [] s = "le" -> 68 [] s = "la" -> 69 [] s = "te" -> 70 [] s = "ti" -> 71]

key_to_adjustment ==
  [k \in {"C", "C#", "Db", "D", "D#", "Eb", "E", "F", "F#", "Gb", "G", "G#",
          "Ab", "A", "A#", "Bb", "B"} |->
     CASE k = "C" -> 0 [] k = "C#" -> 1 [] k = "Db" -> 1 [] k = "D" -> 2
       [] k = "D#" -> 2 [] k = "Eb" -> 3 [] k = "E" -> 4 [] k = "F" -> 5
       [] k = "F#" -> 6 [] k = "Gb" -> -6 [] k = "G" -> -5 [] k = "G#" -> -4
       [] k = "Ab" -> -4 [] k = "A" -> -3 [] k = "A#" -> -2 [] k = "Bb" -> -2
       [] k = "B" -> -1]

\* key_to_adjustment of backend.py: the same table with "A3" where "A#" was.
backend_key_to_adjustment ==
  [k \in {"C", "C#", "Db", "D", "D#", "Eb", "E", "F", "F#", "Gb", "G", "G#",
          "Ab", "A", "A3", "Bb", "B"} |->
     CASE k = "C" -> 0 [] k = "C#" -> 1 [] k = "Db" -> 1 [] k = "D" -> 2
       [] k = "D#" -> 2 [] k = "Eb" -> 3 [] k = "E" -> 4 [] k = "F" -> 5
       [] k = "F#" -> 6 [] k = "Gb" -> -6 [] k = "G" -> -5 [] k = "G#" -> -4
       [] k = "Ab" -> -4 [] k = "A" -> -3 [] k = "A3" -> -2 [] k = "Bb" -> -2
       [] k = "B" -> -1]

(***************************************************************************)
(* Session: EarTrainingGame.                                               *)
(***************************************************************************)
Main == 0                         \* the foreground (main) thread as lock holder
Threads == 1..MaxThreads          \* clock threads, in order of creation
GuessNames == {"do", "re"}        \* syllables the learner enters

\* f"{self.elapsed_time:.2f}": seconds rounded to hundredths. n quanta are
\* n/60 s = 5n/3 hundredths, never halfway between two hundredths.
Fmt2(n) == (10 * n + 3) \div 6

\* The line notify_gui prints from the two values it read.
StateLine(t, g) == [kind |-> "state", elapsed |-> Fmt2(t), guesses |-> g]
\* The line the except clause of _game_clock prints.
ErrorLine == [kind |-> "error", elapsed |-> 0, guesses |-> <<>>]
NoLine == [kind |-> "none", elapsed |-> 0, guesses |-> <<>>]

SessionInit ==
  /\ running = FALSE
  /\ elapsed_time = 0
  /\ user_guesses = <<>>
  /\ lock = {}
  /\ thread = 0
  /\ tpc = [t \in Threads |-> "unborn"]
  /\ tsnap = [t \in Threads |-> 0]
  /\ fpc = "idle"
  /\ fsnap = 0
  /\ farg = "do"
  /\ fg_raised = "none"
  /\ out = NoLine
  /\ stop_returned = FALSE

\* start_game: sets the flag, creates and starts a new clock thread.
StartGame ==
  /\ fpc = "idle"
  /\ thread < MaxThreads
  /\ running' = TRUE
  /\ thread' = thread + 1
  /\ tpc' = [tpc EXCEPT ![thread + 1] = "while"]
  /\ stop_returned' = FALSE
  /\ UNCHANGED <<gen_vars, val_vars, cad_vars>>
  /\ UNCHANGED <<elapsed_time, user_guesses, lock, tsnap, fpc, fsnap, farg,
                 fg_raised, out>>

\* stop_game, first statement; self.thread does not exist before start_game.
StopGame ==
  /\ fpc = "idle"
  /\ running' = FALSE
  /\ IF thread = 0
       THEN /\ fg_raised' = "AttributeError"
            /\ fpc' = "idle"
       ELSE /\ fpc' = "join"
            /\ UNCHANGED fg_raised
  /\ UNCHANGED <<gen_vars, val_vars, cad_vars>>
  /\ UNCHANGED <<elapsed_time, user_guesses, lock, thread, tpc, tsnap, fsnap,
                 farg, out, stop_returned>>

\* The thread a join waits for has ended.
Ended(t) == tpc[t] \in {"exited", "failed"}

\* stop_game: self.thread.join() returns once the newest thread has ended.
StopJoin ==
  /\ fpc = "join"
  /\ Ended(thread)
  /\ fpc' = "idle"
  /\ stop_returned' = TRUE
  /\ UNCHANGED <<gen_vars, val_vars, cad_vars>>
  /\ UNCHANGED <<running, elapsed_time, user_guesses, lock, thread, tpc, tsnap,
                 fsnap, farg, fg_raised, out>>

\* add_user_guess: with self.lock entered.
AddUserGuess(s) ==
  /\ fpc = "idle"
  /\ Len(user_guesses) < MaxGuesses
  /\ lock = {}
  /\ lock' = {Main}
  /\ fpc' = "add_cs"
  /\ farg' = s
  /\ UNCHANGED <<gen_vars, val_vars, cad_vars>>
  /\ UNCHANGED <<running, elapsed_time, user_guesses, thread, tpc, tsnap, fsnap,
                 fg_raised, out, stop_returned>>

\* add_user_guess: append, leave the with block.
AddPrepend ==
  /\ fpc = "add_cs"
  /\ user_guesses' = <<farg>> \o user_guesses
  /\ lock' = {}
  /\ fpc' = "notify_t"
  /\ UNCHANGED <<gen_vars, val_vars, cad_vars>>
  /\ UNCHANGED <<running, elapsed_time, thread, tpc, tsnap, fsnap, farg,
                 fg_raised, out, stop_returned>>
AddAppend ==
  /\ fpc = "add_cs"
  /\ user_guesses' = Append(user_guesses, farg)
  /\ lock' = {}
  /\ fpc' = "notify_t"
  /\ UNCHANGED <<gen_vars, val_vars, cad_vars>>
  /\ UNCHANGED <<running, elapsed_time, thread, tpc, tsnap, fsnap, farg,
                 fg_raised, out, stop_returned>>

\* remove_user_guess: with self.lock entered.
RemoveUserGuess ==
  /\ fpc = "idle"
  /\ lock = {}
  /\ lock' = {Main}
  /\ fpc' = "rm_cs"
  /\ UNCHANGED <<gen_vars, val_vars, cad_vars>>
  /\ UNCHANGED <<running, elapsed_time, user_guesses, thread, tpc, tsnap, fsnap,
                 farg, fg_raised, out, stop_returned>>

\* remove_user_guess: pop when non-empty, leave the with block.
RemovePopFirst ==
  /\ fpc = "rm_cs"
  /\ user_guesses' = IF user_guesses # <<>> THEN Tail(user_guesses) ELSE user_guesses
  /\ lock' = {}
  /\ fpc' = "notify_t"
  /\ UNCHANGED <<gen_vars, val_vars, cad_vars>>
  /\ UNCHANGED <<running, elapsed_time, thread, tpc, tsnap, fsnap, farg,
                 fg_raised, out, stop_returned>>
RemovePop ==
  /\ fpc = "rm_cs"
  /\ user_guesses' = IF user_guesses # <<>>
                       THEN SubSeq(user_guesses, 1, Len(user_guesses) - 1)
                       ELSE user_guesses
  /\ lock' = {}
  /\ fpc' = "notify_t"
  /\ UNCHANGED <<gen_vars, val_vars, cad_vars>>
  /\ UNCHANGED <<running, elapsed_time, thread, tpc, tsnap, fsnap, farg,
                 fg_raised, out, stop_returned>>

\* notify_gui called by the foreground: the f-string reads self.elapsed_time ...
FgReadTime ==
  /\ fpc = "notify_t"
  /\ fsnap' = elapsed_time
  /\ fpc' = "notify_g"
  /\ UNCHANGED <<gen_vars, val_vars, cad_vars>>
  /\ UNCHANGED <<running, elapsed_time, user_guesses, lock, thread, tpc, tsnap,
                 farg, fg_raised, out, stop_returned>>

\* ... then self.user_guesses, and the line is printed.
FgPrint ==
  /\ fpc = "notify_g"
  /\ out' = StateLine(fsnap, user_guesses)
  /\ fsnap' = 0
  /\ fpc' = "idle"
  /\ UNCHANGED <<gen_vars, val_vars, cad_vars>>
  /\ UNCHANGED <<running, elapsed_time, user_guesses, lock, thread, tpc, tsnap,
                 farg, fg_raised, stop_returned>>

\* _game_clock: the test of the while loop.
TickCheck(t) ==
  /\ tpc[t] = "while"
  /\ IF running
       THEN /\ elapsed_time < MaxTicks
            /\ tpc' = [tpc EXCEPT ![t] = "acquire"]
       ELSE tpc' = [tpc EXCEPT ![t] = "exited"]
  /\ UNCHANGED <<gen_vars, val_vars, cad_vars>>
  /\ UNCHANGED <<running, elapsed_time, user_guesses, lock, thread, tsnap, fpc,
                 fsnap, farg, fg_raised, out, stop_returned>>

\* _game_clock: with self.lock entered.
TickAcquire(t) ==
  /\ tpc[t] = "acquire"
  /\ lock = {}
  /\ lock' = {t}
  /\ tpc' = [tpc EXCEPT ![t] = "incr"]
  /\ UNCHANGED <<gen_vars, val_vars, cad_vars>>
  /\ UNCHANGED <<running, elapsed_time, user_guesses, thread, tsnap, fpc, fsnap,
                 farg, fg_raised, out, stop_returned>>

\* _game_clock: self.elapsed_time += 1/60, leave the with block.
TickIncrement(t) ==
  /\ tpc[t] = "incr"
  /\ elapsed_time' = elapsed_time + 1
  /\ lock' = {}
  /\ tpc' = [tpc EXCEPT ![t] = "notify_t"]
  /\ UNCHANGED <<gen_vars, val_vars, cad_vars>>
  /\ UNCHANGED <<running, user_guesses, thread, tsnap, fpc, fsnap, farg,
                 fg_raised, out, stop_returned>>

\* _game_clock: after the sleep, notify_gui reads self.elapsed_time ...
TickReadTime(t) ==
  /\ tpc[t] = "notify_t"
  /\ tsnap' = [tsnap EXCEPT ![t] = elapsed_time]
  /\ tpc' = [tpc EXCEPT ![t] = "notify_g"]
  /\ UNCHANGED <<gen_vars, val_vars, cad_vars>>
  /\ UNCHANGED <<running, elapsed_time, user_guesses, lock, thread, fpc, fsnap,
                 farg, fg_raised, out, stop_returned>>

\* ... then self.user_guesses, and the line is printed.
TickPrint(t) ==
  /\ tpc[t] = "notify_g"
  /\ out' = StateLine(tsnap[t], user_guesses)
  /\ tsnap' = [tsnap EXCEPT ![t] = 0]
  /\ tpc' = [tpc EXCEPT ![t] = "while"]
  /\ UNCHANGED <<gen_vars, val_vars, cad_vars>>
  /\ UNCHANGED <<running, elapsed_time, user_guesses, lock, thread, fpc, fsnap,
                 farg, fg_raised, stop_returned>>

\* An exception inside the try block (the print of notify_gui fails).
TickRaise(t) ==
  /\ tpc[t] = "notify_g"
  /\ tsnap' = [tsnap EXCEPT ![t] = 0]
  /\ tpc' = [tpc EXCEPT ![t] = "except"]
  /\ UNCHANGED <<gen_vars, val_vars, cad_vars>>
  /\ UNCHANGED <<running, elapsed_time, user_guesses, lock, thread, fpc, fsnap,
                 farg, fg_raised, out, stop_returned>>

\* The except clause: prints the error; the thread function returns.
TickExcept(t) ==
  /\ tpc[t] = "except"
  /\ out' = ErrorLine
  /\ tpc' = [tpc EXCEPT ![t] = "failed"]
  /\ UNCHANGED <<gen_vars, val_vars, cad_vars>>
  /\ UNCHANGED <<running, elapsed_time, user_guesses, lock, thread, tsnap, fpc,
                 fsnap, farg, fg_raised, stop_returned>>

GenRest ==
  /\ gpc = "off"
  /\ number_of_notes = 0
  /\ solfege_list = <<>>
  /\ octave_range = 0
  /\ key = "C"
  /\ midi_sequence = <<>>
  /\ octave_adjustments = <<>>
  /\ g_raised = "none"
  /\ midi_test_notes = <<>>
  /\ pre_octave_key_list = <<>>

ValRest ==
  /\ vpc = "off"
  /\ v_truth = <<>>
  /\ v_input = <<>>
  /\ v_raised = "none"
  /\ overall_match = 0
  /\ detailed_match = <<>>

CadRest ==
  /\ cpc = "off"
  /\ c_module = "EarTraining"
  /\ c_key = "C"
  /\ key_note = 0
  /\ dominant = <<>>
  /\ tonic = <<>>
  /\ c_raised = "none"

(***************************************************************************)
(* generate_reference_cadence, defined alike in EarTraining.py and in      *)
(* backend.py, each over the key table of its own module.                  *)
(***************************************************************************)
Modules == {"EarTraining", "backend"}
\* The key names either table knows.
CadenceKeys == DOMAIN key_to_adjustment \cup DOMAIN backend_key_to_adjustment

\* The global key_to_adjustment the function of module m reads.
KeyTable(m) == IF m = "backend" THEN backend_key_to_adjustment ELSE key_to_adjustment

\* (key_note - 5, key_note - 1, key_note + 2)
DominantAbove(note) == <<note + 7, note + 11, note + 14>>
Dominant(note) == <<note - 5, note - 1, note + 2>>

\* (key_note, key_note + 4, key_note + 7)
Tonic(note) == <<note, note + 4, note + 7>>

CadInit ==
  /\ cpc = "start"
  /\ c_module \in Modules
  /\ c_key \in CadenceKeys
  /\ key_note = 0
  /\ dominant = <<>>
  /\ tonic = <<>>
  /\ c_raised = "none"

\* key_note = solfege_to_midi['do'] + key_to_adjustment[key]
CadKeyNote ==
  /\ cpc = "start"
  /\ IF c_key \in DOMAIN KeyTable(c_module)
       THEN /\ key_note' = solfege_to_midi["do"] + KeyTable(c_module)[c_key]
            /\ cpc' = "dominant"
            /\ UNCHANGED c_raised
       ELSE /\ cpc' = "raised"
            /\ c_raised' = "KeyError"
            /\ UNCHANGED key_note
  /\ UNCHANGED <<c_module, c_key, dominant, tonic>>
  /\ UNCHANGED <<session_vars, gen_vars, val_vars>>

\* dominant = ...
CadDominant ==
  /\ cpc = "dominant"
  /\ dominant' = Dominant(key_note)
  /\ cpc' = "tonic"
  /\ UNCHANGED <<c_module, c_key, key_note, tonic, c_raised>>
  /\ UNCHANGED <<session_vars, gen_vars, val_vars>>

\* tonic = ...
CadTonic ==
  /\ cpc = "tonic"
  /\ tonic' = Tonic(key_note)
  /\ cpc' = "return"
  /\ UNCHANGED <<c_module, c_key, key_note, dominant, c_raised>>
  /\ UNCHANGED <<session_vars, gen_vars, val_vars>>

\* return {'dominant': dominant, 'tonic': tonic}
CadReturn ==
  /\ cpc = "return"
  /\ cpc' = "returned"
  /\ UNCHANGED <<c_module, c_key, key_note, dominant, tonic, c_raised>>
  /\ UNCHANGED <<session_vars, gen_vars, val_vars>>

CadNext == CadKeyNote \/ CadDominant \/ CadTonic \/ CadReturn

CadStart == SessionInit /\ GenRest /\ ValRest /\ CadInit

CadSpec == CadStart /\ [][CadNext]_vars

(***************************************************************************)
(* generate_test_sequence.  solfege_list is the argument after split();    *)
(* every random draw is a choice among the values it can return.           *)
(***************************************************************************)
SyllableInputs == {"do", "re", "mi", "xx"}   \* "xx" is no key of solfege_to_midi
KeyInputs == {"C", "D", "Gb", "H"}           \* "H" is no key of key_to_adjustment
SyllableLists == UNION {[1..n -> SyllableInputs] : n \in 0..MaxSyllables}

\* str(n) as the sequence of its characters.
RECURSIVE Str(_)
Str(n) ==
  IF n < 0 THEN <<"-">> \o Str(-n)
  ELSE IF n < 10 THEN <<(<<"0", "1", "2", "3", "4", "5", "6", "7", "8", "9">>)[n + 1]>>
  ELSE Str(n \div 10) \o Str(n % 10)

\* "_".join(map(str, notes))
RECURSIVE JoinNotes(_)
JoinNotes(notes) ==
  IF notes = <<>> THEN <<>>
  ELSE IF Len(notes) = 1 THEN Str(notes[1])
  ELSE Str(notes[1]) \o <<"_">> \o JoinNotes(Tail(notes))

\* [solfege_to_midi[syllable] for syllable in solfege_list]
SelectedMidiNotes(list) == [i \in 1..Len(list) |-> solfege_to_midi[list[i]]]

\* [note for note in selected_midi_notes if note != midi_sequence[-1]]
CandidatesUnfiltered(notes, last) == notes
Candidates(notes, last) ==
  LET Differs(note) == note # last IN SelectSeq(notes, Differs)

\* [octave for octave in range(1, octave_range+1) if octave != octave_adjustments[-1]]
OtherOctaves(range, last) ==
  LET Differs(octave) == octave # last
  IN SelectSeq([i \in 1..(IF range < 0 THEN 0 ELSE range) |-> i], Differs)

\* [(note + (octave - 1) * 12) for note, octave in zip(midi_sequence, octave_adjustments)]
NotesPlusOctaveUnshifted(notes, octaves) ==
  [i \in 1..(IF Len(notes) < Len(octaves) THEN Len(notes) ELSE Len(octaves)) |->
     notes[i] + octaves[i] * 12]
NotesPlusOctave(notes, octaves) ==
  [i \in 1..(IF Len(notes) < Len(octaves) THEN Len(notes) ELSE Len(octaves)) |->
     notes[i] + (octaves[i] - 1) * 12]

\* [note + key_adjustment for note in notes_plus_octave]
AdjustedNotes(notes, key_adjustment) ==
  [i \in 1..Len(notes) |-> notes[i] + key_adjustment]

GenInit ==
  /\ gpc = "start"
  /\ number_of_notes \in -1..MaxNotes
  /\ solfege_list \in SyllableLists
  /\ octave_range \in 0..MaxOctave
  /\ key \in KeyInputs
  /\ midi_sequence = <<>>
  /\ octave_adjustments = <<>>
  /\ g_raised = "none"
  /\ midi_test_notes = <<>>
  /\ pre_octave_key_list = <<>>

\* The function ends by raising exception e.
GenRaise(e) ==
  /\ gpc' = "raised"
  /\ g_raised' = e

\* Syllables to MIDI notes; the first note is random.choice(selected_midi_notes).
GenSelect ==
  /\ gpc = "start"
  /\ IF \E i \in 1..Len(solfege_list) : solfege_list[i] \notin DOMAIN solfege_to_midi
       THEN GenRaise("KeyError") /\ UNCHANGED midi_sequence
       ELSE IF solfege_list = <<>>
         THEN GenRaise("IndexError") /\ UNCHANGED midi_sequence
         ELSE /\ \E i \in 1..Len(solfege_list) :
                   midi_sequence' = <<SelectedMidiNotes(solfege_list)[i]>>
              /\ gpc' = "notes"
              /\ UNCHANGED g_raised
  /\ UNCHANGED <<number_of_notes, solfege_list, octave_range, key,
                 octave_adjustments, midi_test_notes, pre_octave_key_list>>
  /\ UNCHANGED <<session_vars, val_vars, cad_vars>>

\* One iteration of the while loop: random.choice among the other notes.
GenNextNote ==
  /\ gpc = "notes"
  /\ Len(midi_sequence) < number_of_notes
  /\ LET cand == Candidates(SelectedMidiNotes(solfege_list),
                            midi_sequence[Len(midi_sequence)])
     IN IF cand = <<>>
          THEN GenRaise("IndexError") /\ UNCHANGED midi_sequence
          ELSE /\ \E i \in 1..Len(cand) : midi_sequence' = Append(midi_sequence, cand[i])
               /\ UNCHANGED <<gpc, g_raised>>
  /\ UNCHANGED <<number_of_notes, solfege_list, octave_range, key,
                 octave_adjustments, midi_test_notes, pre_octave_key_list>>
  /\ UNCHANGED <<session_vars, val_vars, cad_vars>>

\* The loop is left: the sequence is copied, the first octave is
\* random.randint(1, octave_range), which raises on an empty range.
GenFirstOctave ==
  /\ gpc = "notes"
  /\ Len(midi_sequence) >= number_of_notes
  /\ pre_octave_key_list' = midi_sequence
  /\ IF octave_range < 1
       THEN GenRaise("ValueError") /\ UNCHANGED octave_adjustments
       ELSE /\ \E o \in 1..octave_range : octave_adjustments' = <<o>>
            /\ gpc' = "octaves"
            /\ UNCHANGED g_raised
  /\ UNCHANGED <<number_of_notes, solfege_list, octave_range, key,
                 midi_sequence, midi_test_notes>>
  /\ UNCHANGED <<session_vars, val_vars, cad_vars>>

\* One iteration of for _ in range(1, number_of_notes).
GenNextOctave ==
  /\ gpc = "octaves"
  /\ Len(octave_adjustments) < number_of_notes
  /\ LET last == octave_adjustments[Len(octave_adjustments)]
         others == OtherOctaves(octave_range, last)
         Choose == IF others = <<>>
                     THEN GenRaise("IndexError") /\ UNCHANGED octave_adjustments
                     ELSE /\ \E i \in 1..Len(others) :
                               octave_adjustments' = Append(octave_adjustments, others[i])
                          /\ UNCHANGED <<gpc, g_raised>>
     IN IF last = 1
          THEN \/ /\ octave_adjustments' = Append(octave_adjustments, 1)  \* random() < 0.75
                  /\ UNCHANGED <<gpc, g_raised>>
               \/ Choose                                                  \* random() >= 0.75
          ELSE Choose
  /\ UNCHANGED <<number_of_notes, solfege_list, octave_range, key,
                 midi_sequence, midi_test_notes, pre_octave_key_list>>
  /\ UNCHANGED <<session_vars, val_vars, cad_vars>>

\* Octave and key adjustment, the notes joined into a string, return.
GenReturn ==
  /\ gpc = "octaves"
  /\ Len(octave_adjustments) >= number_of_notes
  /\ IF key \notin DOMAIN key_to_adjustment
       THEN GenRaise("KeyError") /\ UNCHANGED midi_test_notes
       ELSE /\ midi_test_notes' =
                 JoinNotes(AdjustedNotes(NotesPlusOctave(midi_sequence, octave_adjustments),
                                         key_to_adjustment[key]))
            /\ gpc' = "returned"
            /\ UNCHANGED g_raised
  /\ UNCHANGED <<number_of_notes, solfege_list, octave_range, key,
                 midi_sequence, octave_adjustments, pre_octave_key_list>>
  /\ UNCHANGED <<session_vars, val_vars, cad_vars>>

GenNext == GenSelect \/ GenNextNote \/ GenFirstOctave \/ GenNextOctave \/ GenReturn

GenStart == SessionInit /\ GenInit /\ ValRest /\ CadRest

GenSpec == GenStart /\ [][GenNext]_vars

\* The call runs to its end: it is one thread of sequential code.
GenFairSpec == GenSpec /\ WF_vars(GenNext)

(***************************************************************************)
(* validate_user_input.                                                    *)
(***************************************************************************)
NoteInputs == {60, 62}
NoteLists == UNION {[1..n -> NoteInputs] : n \in 0..MaxLen}

\* 1 if pre_octave_key_list == user_input_list else 0
OverallMatchFirst(truth, input) ==
  IF truth = <<>> \/ input = <<>> \/ truth[1] = input[1] THEN 1 ELSE 0
OverallMatch(truth, input) == IF truth = input THEN 1 ELSE 0

\* [1 if truth[i] == input[i] else 0 for i in range(len(truth))], defined
\* when every index of truth is an index of input.
DetailedMatch(truth, input) ==
  [i \in 1..Len(truth) |-> IF truth[i] = input[i] THEN 1 ELSE 0]

ValInit ==
  /\ vpc = "start"
  /\ v_truth \in NoteLists
  /\ v_input \in NoteLists
  /\ v_raised = "none"
  /\ overall_match = 0
  /\ detailed_match = <<>>

\* First statement: the whole-list comparison.
ValOverall ==
  /\ vpc = "start"
  /\ overall_match' = OverallMatch(v_truth, v_input)
  /\ vpc' = "detail"
  /\ UNCHANGED <<v_truth, v_input, v_raised, detailed_match>>
  /\ UNCHANGED <<session_vars, gen_vars, cad_vars>>

\* The list comprehension and the return; user_input_list[i] raises IndexError
\* at the first index of the truth that the input does not have.
ValDetailed ==
  /\ vpc = "detail"
  /\ IF Len(v_input) < Len(v_truth)
       THEN /\ vpc' = "raised"
            /\ v_raised' = "IndexError"
            /\ UNCHANGED detailed_match
       ELSE /\ detailed_match' = DetailedMatch(v_truth, v_input)
            /\ vpc' = "returned"
            /\ UNCHANGED v_raised
  /\ UNCHANGED <<v_truth, v_input, overall_match>>
  /\ UNCHANGED <<session_vars, gen_vars, cad_vars>>

ValNext == ValOverall \/ ValDetailed

ValStart == SessionInit /\ GenRest /\ ValInit /\ CadRest

ValSpec == ValStart /\ [][ValNext]_vars

Init == SessionInit /\ GenRest /\ ValRest /\ CadRest

Next ==
  \/ StartGame
  \/ StopGame
  \/ StopJoin
  \/ \E s \in GuessNames : AddUserGuess(s)
  \/ AddAppend
  \/ RemoveUserGuess
  \/ RemovePop
  \/ FgReadTime
  \/ FgPrint
  \/ \E t \in Threads : TickCheck(t)
  \/ \E t \in Threads : TickAcquire(t)
  \/ \E t \in Threads : TickIncrement(t)
  \/ \E t \in Threads : TickReadTime(t)
  \/ \E t \in Threads : TickPrint(t)
  \/ \E t \in Threads : TickRaise(t)
  \/ \E t \in Threads : TickExcept(t)

Spec == Init /\ [][Next]_vars

(***************************************************************************)
(* Properties of the session.                                              *)
(***************************************************************************)

\* C1: once stop_game has returned (and until start_game is called again) no
\* step changes elapsed_time: stop_game waited for every clock thread.
C1_NoTickAfterStop == [][stop_returned => elapsed_time' = elapsed_time]_vars

\* A step of clock thread t that reads or writes elapsed_time or the guesses.
TickAccess(t) ==
  /\ tpc[t] \in {"incr", "notify_t", "notify_g"}
  /\ tpc'[t] \notin {tpc[t], "except"}
\* A step of the foreground that reads or writes elapsed_time or the guesses.
FgAccess ==
  /\ fpc \in {"add_cs", "rm_cs", "notify_t", "notify_g"}
  /\ fpc' # fpc

\* C2: no access of a clock thread to elapsed_time or the guess buffer
\* (snapshot reads included) happens while the foreground holds the lock, and
\* no access of the foreground happens while a clock thread holds it.
C2_MutualExclusion ==
  [][/\ \A t \in Threads : TickAccess(t) => Main \notin lock
     /\ FgAccess => lock \subseteq {Main}]_vars

\* C3: when the except clause of the clock has handled an error, running is
\* false, the error line was printed, and the foreground saw no exception.
C3_TickErrorStopsSession ==
  [][\A t \in Threads :
       (tpc[t] = "except" /\ tpc'[t] = "failed") =>
         /\ running' = FALSE
         /\ out'.kind = "error"
         /\ fg_raised' = fg_raised]_vars

(***************************************************************************)
(* Properties of generate_test_sequence.                                   *)
(***************************************************************************)

\* The returned string read back: split at "_", each part read as a number.
DigitValue(c) ==
  CASE c = "0" -> 0 [] c = "1" -> 1 [] c = "2" -> 2 [] c = "3" -> 3 [] c = "4" -> 4
    [] c = "5" -> 5 [] c = "6" -> 6 [] c = "7" -> 7 [] c = "8" -> 8 [] c = "9" -> 9

RECURSIVE ToInt(_)
ToInt(part) ==
  IF part[1] = "-" THEN 0 - ToInt(Tail(part))
  ELSE IF Len(part) = 1 THEN DigitValue(part[1])
  ELSE 10 * ToInt(SubSeq(part, 1, Len(part) - 1)) + DigitValue(part[Len(part)])

RECURSIVE SplitParts(_, _)
SplitParts(str, part) ==
  IF str = <<>> THEN <<part>>
  ELSE IF str[1] = "_" THEN <<part>> \o SplitParts(Tail(str), <<>>)
  ELSE SplitParts(Tail(str), Append(part, str[1]))

DisplayNotes ==
  LET parts == SplitParts(midi_test_notes, <<>>)
  IN [i \in 1..Len(parts) |-> ToInt(parts[i])]

SyllablesValid ==
  \A i \in 1..Len(solfege_list) : solfege_list[i] \in DOMAIN solfege_to_midi
AllowedPitches ==
  {solfege_to_midi[solfege_list[i]] : i \in 1..Len(solfege_list)}
NoAdjacentEqual(seq) == \A i \in 1..(Len(seq) - 1) : seq[i] # seq[i + 1]

ValidInput ==
  /\ number_of_notes >= 1
  /\ SyllablesValid
  /\ Cardinality(AllowedPitches) >= 2
  /\ octave_range >= 1
  /\ key \in DOMAIN key_to_adjustment

\* C4: on valid input the call does not raise, and what it returns are two
\* sequences of number_of_notes elements, the ground truth without adjacent
\* repeats.
C4_ValidInputReturns ==
  ValidInput =>
    /\ gpc # "raised"
    /\ gpc = "returned" =>
         /\ Len(pre_octave_key_list) = number_of_notes
         /\ Len(DisplayNotes) = number_of_notes
         /\ NoAdjacentEqual(pre_octave_key_list)

\* C5: with octave_range 1 and key C every run ends with a ground truth of
\* number_of_notes allowed pitches without adjacent repeats and a display
\* sequence equal to it; no run ends otherwise.
C5_OneOctaveKeyC ==
  (ValidInput /\ octave_range = 1 /\ key = "C") =>
    /\ gpc # "raised"
    /\ gpc = "returned" =>
         /\ Len(pre_octave_key_list) = number_of_notes
         /\ \A i \in 1..Len(pre_octave_key_list) :
              pre_octave_key_list[i] \in AllowedPitches
         /\ NoAdjacentEqual(pre_octave_key_list)
         /\ DisplayNotes = pre_octave_key_list

\* C6: whenever the call returns, each display note is the ground-truth note
\* plus (band - 1) * 12 plus the key's adjustment for a band in
\* 1..octave_range, and each ground-truth note is the pitch of an allowed
\* syllable (no octave or key adjustment in it).
C6_DisplayFormula ==
  gpc = "returned" =>
    /\ Len(DisplayNotes) = Len(pre_octave_key_list)
    /\ \A i \in 1..Len(pre_octave_key_list) :
         /\ \E band \in 1..octave_range :
              DisplayNotes[i] =
                pre_octave_key_list[i] + (band - 1) * 12 + key_to_adjustment[key]
         /\ pre_octave_key_list[i] \in AllowedPitches

\* A call returned notes in a band above the first, in a key with a negative
\* adjustment.
C6_Witness ==
  /\ gpc = "returned"
  /\ key = "Gb"
  /\ number_of_notes >= 2
  /\ \E i \in 1..Len(octave_adjustments) : octave_adjustments[i] = 2
  /\ \E i \in 1..Len(octave_adjustments) : octave_adjustments[i] = 1

SinglePitch ==
  /\ SyllablesValid
  /\ Cardinality(AllowedPitches) = 1

\* C7: a call with exactly one distinct allowed pitch and number_of_notes > 1
\* never returns, and it does end, by raising.
C7_SinglePitchRaises ==
  /\ []((SinglePitch /\ number_of_notes > 1) => gpc # "returned")
  /\ (SinglePitch /\ number_of_notes > 1) ~> (gpc = "raised")

\* Such a call has raised IndexError in the no-repeat loop, after its first
\* note (the syllable was passed twice).
C7_Witness ==
  /\ SinglePitch
  /\ Len(solfege_list) = 2
  /\ number_of_notes > 1
  /\ gpc = "raised"
  /\ g_raised = "IndexError"
  /\ Len(midi_sequence) = 1

\* C8: a call with number_of_notes < 1 or octave_range < 1 returns nothing.
C8_BadCountOrRangeRejected ==
  (number_of_notes < 1 \/ octave_range < 1) => gpc # "returned"

(***************************************************************************)
(* Properties of validate_user_input.                                      *)
(***************************************************************************)

\* C9: for lists of equal length the call returns overall 1 exactly when the
\* lists agree at every index, and per-note 1 at exactly the indices where
\* they agree (0 elsewhere).
C9_ScoringExact ==
  (vpc = "returned" /\ Len(v_truth) = Len(v_input)) =>
    /\ overall_match \in {0, 1}
    /\ overall_match = 1 <=> \A i \in 1..Len(v_truth) : v_truth[i] = v_input[i]
    /\ Len(detailed_match) = Len(v_truth)
    /\ \A i \in 1..Len(v_truth) :
         /\ detailed_match[i] \in {0, 1}
         /\ detailed_match[i] = 1 <=> v_truth[i] = v_input[i]

\* Two lists of equal length that differ at the last index only were scored:
\* overall 0, per-note 0 exactly there.
C9_Witness ==
  /\ vpc = "returned"
  /\ Len(v_truth) = Len(v_input)
  /\ Len(v_truth) >= 2
  /\ \A i \in 1..Len(v_truth) : (v_truth[i] # v_input[i]) <=> (i = Len(v_truth))
  /\ overall_match = 0
  /\ \A i \in 1..Len(v_truth) : (detailed_match[i] = 0) <=> (i = Len(v_truth))

\* C10: a call with lists of unequal length returns nothing (it raises).
C10_UnequalLengthRejected ==
  Len(v_truth) # Len(v_input) => vpc # "returned"

(***************************************************************************)
(* Properties of the key table and of generate_reference_cadence.          *)
(***************************************************************************)
EnharmonicPairs ==
  {{"C#", "Db"}, {"D#", "Eb"}, {"F#", "Gb"}, {"G#", "Ab"}, {"A#", "Bb"}}

\* C11: a key name of an enharmonic pair has an adjustment, and so has the
\* other name of the pair, equal to it modulo 12; every key name of the
\* table has an adjustment between -6 and 6 (read off the returned cadence:
\* the adjustment is key_note - 60).
C11_EnharmonicKeys ==
  /\ (\E pair \in EnharmonicPairs : c_key \in pair) => cpc # "raised"
  /\ cpc = "returned" =>
       /\ key_note - solfege_to_midi["do"] \in -6..6
       /\ \A pair \in EnharmonicPairs : c_key \in pair =>
            \A other \in pair :
              /\ other \in DOMAIN KeyTable(c_module)
              /\ (KeyTable(c_module)[other] - (key_note - solfege_to_midi["do"])) % 12 = 0

\* C12: for every key name of the table the call returns
\* tonic (r, r+4, r+7) and dominant (r-5, r-1, r+2), r = 60 + adjustment:
\* the triads of key C, (60, 64, 67) and (55, 59, 62), shifted by the
\* adjustment; key D gives (62, 66, 69) and (57, 61, 64).
C12_CadenceTransposed ==
  /\ c_key \in DOMAIN KeyTable(c_module) => cpc # "raised"
  /\ cpc = "returned" =>
       LET adj == KeyTable(c_module)[c_key]
           r == 60 + adj
       IN /\ tonic = <<r, r + 4, r + 7>>
          /\ dominant = <<r - 5, r - 1, r + 2>>
          /\ \A i \in 1..3 : /\ tonic[i] = <<60, 64, 67>>[i] + adj
                             /\ dominant[i] = <<55, 59, 62>>[i] + adj
          /\ c_key = "D" => (tonic = <<62, 66, 69>> /\ dominant = <<57, 61, 64>>)

\* The cadence of key D was returned by EarTraining.py.
C12_Witness ==
  /\ cpc = "returned"
  /\ c_module = "EarTraining"
  /\ c_key = "D"
  /\ tonic = <<62, 66, 69>>
  /\ dominant = <<57, 61, 64>>

(***************************************************************************)
(* Further properties of the session.                                      *)
(***************************************************************************)

\* C13: the steps of remove_user_guess change neither elapsed_time nor
\* running and raise nothing; its pop removes exactly the last guess of a
\* non-empty buffer and leaves an empty buffer empty; it then enters
\* notify_gui, whose print is a state line with the buffer as it then is.
C13_RemoveLastGuess ==
  [][/\ (fpc = "idle" /\ fpc' = "rm_cs") =>
          UNCHANGED <<user_guesses, elapsed_time, running, fg_raised>>
     /\ (fpc = "rm_cs" /\ fpc' # "rm_cs") =>
          /\ IF user_guesses = <<>>
               THEN user_guesses' = <<>>
               ELSE /\ Len(user_guesses') = Len(user_guesses) - 1
                    /\ \A i \in 1..Len(user_guesses') : user_guesses'[i] = user_guesses[i]
          /\ UNCHANGED <<elapsed_time, running, fg_raised>>
          /\ fpc' = "notify_t"
     /\ (fpc = "notify_t" /\ fpc' # "notify_t") =>
          (fpc' = "notify_g" /\ UNCHANGED <<user_guesses, elapsed_time, running, fg_raised>>)
     /\ (fpc = "notify_g" /\ fpc' # "notify_g") =>
          /\ out'.kind = "state"
          /\ out'.guesses = user_guesses
          /\ UNCHANGED <<user_guesses, elapsed_time, running, fg_raised>>]_vars

\* remove_user_guess, called before any guess was added and before any line
\* was printed, has popped nothing, raised nothing and is inside notify_gui.
C13_Witness ==
  /\ fpc = "notify_g"
  /\ out = NoLine
  /\ user_guesses = <<>>
  /\ fg_raised = "none"

\* A step by which a foreground operation returns to its caller.
FgReturns == thread' # thread \/ (fpc # "idle" /\ fpc' = "idle")

\* C14: every state-changing operation notifies: a foreground operation
\* (start_game, stop_game, add_user_guess, remove_user_guess) returns by
\* the print of notify_gui, and an increment of the clock is followed by the
\* clock's call of notify_gui.
C14_EveryMutationNotifies ==
  [][/\ FgReturns => (fpc = "notify_g" /\ out'.kind = "state")
     /\ \A t \in Threads :
          (tpc[t] = "incr" /\ tpc'[t] # "incr") => tpc'[t] = "notify_t"]_vars

\* Clock threads that are started and have not ended.
AliveThreads == {t \in Threads : tpc[t] \notin {"unborn", "exited", "failed"}}

\* C15: at most one clock thread is alive at any time.
C15_AtMostOneTick == Cardinality(AliveThreads) <= 1

\* C16: the steps of add_user_guess change neither elapsed_time nor running
\* and raise nothing; its append puts the argument behind the guesses there
\* were, which stay as they are; elapsed_time changes only by the increment
\* of a clock thread, and grows.
C16_AddGuessFrame ==
  [][/\ (fpc = "idle" /\ fpc' = "add_cs") =>
          UNCHANGED <<user_guesses, elapsed_time, running, fg_raised>>
     /\ (fpc = "add_cs" /\ fpc' # "add_cs") =>
          /\ Len(user_guesses') = Len(user_guesses) + 1
          /\ user_guesses'[Len(user_guesses')] = farg
          /\ \A i \in 1..Len(user_guesses) : user_guesses'[i] = user_guesses[i]
          /\ UNCHANGED <<elapsed_time, running, fg_raised>>
     /\ elapsed_time' # elapsed_time =>
          /\ elapsed_time' > elapsed_time
          /\ \E t \in Threads : tpc[t] = "incr" /\ tpc'[t] # "incr"]_vars

\* While the session runs and the clock has ticked, add_user_guess has put
\* its argument behind a different earlier guess.
C16_Witness ==
  /\ fpc = "notify_t"
  /\ running
  /\ elapsed_time > 0
  /\ Len(user_guesses) = 2
  /\ user_guesses[2] = farg
  /\ user_guesses[1] # farg

====
